---- MODULE Spec2Model ----
(***************************************************************************)
(* A model of epub_rebuilder.py: an EPUB is unpacked into a working tree,  *)
(* its content documents are split into one chapter per <h1>, the chapter  *)
(* files are written, and the manifest, the spine, the navigation document *)
(* and the NCX navigation map are rewritten to reference them.             *)
(*                                                                         *)
(* Strings of the program are strings here.  A markup document is the      *)
(* preorder sequence of its body's nodes, each with its tag name, its      *)
(* nesting depth (1 = child of <body>) and its raw text.  A serialized     *)
(* fragment (str(node)) is the sequence of references to the nodes it      *)
(* holds, so that "chapter k contains node n" can be stated.               *)
(***************************************************************************)
EXTENDS Integers, Sequences, FiniteSets, TLC

VARIABLES
    pc,            \* the statement of main() that runs next
    error,         \* the exception that is propagating ("" when none)
    archive,       \* the input EPUB: a function from entry path to content
    tree,          \* the extracted working directory: path -> content
    workdir,       \* TRUE while the extraction directory exists
    opf_path,      \* content_opf_path, the result of find_content_opf
    content_data,  \* the result of parse_content_opf
    chapters,      \* the result of find_chapter_boundaries
    chapter_files, \* the result of create_chapter_files
    output         \* the entries of the archive written by rebuild_epub

vars == <<pc, error, archive, tree, workdir, opf_path, content_data,
          chapters, chapter_files, output>>

-----------------------------------------------------------------------------
(* Bounds of the model.                                                    *)

MaxNodes == 3      \* body nodes of all content documents of a segmenter input
MaxDocs == 2       \* content documents of a segmenter input
MaxSpine == 3      \* itemrefs of the original spine of a pipeline input

-----------------------------------------------------------------------------
(* Strings.                                                                *)

XHTML == "application/xhtml+xml"
NCXTYPE == "application/x-dtbncx+xml"
OPFTYPE == "application/oebps-package+xml"

\* str.startswith
StartsWith(s, p) == Len(s) >= Len(p) /\ SubSeq(s, 1, Len(p)) = p

\* the `in` operator on strings
Contains(s, p) ==
    \E i \in 1..(Len(s) - Len(p) + 1) : SubSeq(s, i, i + Len(p) - 1) = p

LowerChar(c) ==
    CASE c = "C" -> "c"
      [] c = "N" -> "n"
      [] c = "T" -> "t"
      [] OTHER -> c

\* str.lower
RECURSIVE Lower(_)
Lower(s) ==
    IF Len(s) = 0 THEN ""
    ELSE LowerChar(SubSeq(s, 1, 1)) \o Lower(SubSeq(s, 2, Len(s)))

IsSpace(c) == c = " "

\* str.strip
RECURSIVE Strip(_)
Strip(s) ==
    IF Len(s) = 0 THEN ""
    ELSE IF IsSpace(SubSeq(s, 1, 1)) THEN Strip(SubSeq(s, 2, Len(s)))
    ELSE IF IsSpace(SubSeq(s, Len(s), Len(s))) THEN Strip(SubSeq(s, 1, Len(s) - 1))
    ELSE s

\* os.path.join
Join(dir, name) == IF dir = "" THEN name ELSE dir \o "/" \o name

\* os.path.dirname
RECURSIVE Dirname(_)
Dirname(p) ==
    IF Len(p) = 0 THEN ""
    ELSE IF SubSeq(p, Len(p), Len(p)) = "/" THEN SubSeq(p, 1, Len(p) - 1)
    ELSE Dirname(SubSeq(p, 1, Len(p) - 1))

-----------------------------------------------------------------------------
(* Markup documents (BeautifulSoup trees).                                 *)

\* Tag.find_all("h1"): the <h1> nodes in document order
RECURSIVE FindAllFrom(_, _)
FindAllFrom(body, i) ==
    IF i > Len(body) THEN <<>>
    ELSE (IF body[i].name = "h1" THEN <<i>> ELSE <<>>) \o FindAllFrom(body, i + 1)

find_all_h1(body) == FindAllFrom(body, 1)

\* the last node of the subtree rooted at node i
RECURSIVE SubtreeEnd(_, _, _)
SubtreeEnd(body, i, j) ==
    IF j + 1 <= Len(body) /\ body[j + 1].depth > body[i].depth
    THEN SubtreeEnd(body, i, j + 1)
    ELSE j

\* str(node): the node with everything nested in it
Str(path, body, i) ==
    [k \in 1..(SubtreeEnd(body, i, i) - i + 1) |-> [path |-> path, node |-> i + k - 1]]

\* Tag.decode_contents() of the body: all of its markup
decode_contents(path, body) ==
    [k \in 1..Len(body) |-> [path |-> path, node |-> k]]

\* PageElement.next_siblings: the later children of the node's parent
RECURSIVE SiblingsFrom(_, _, _)
SiblingsFrom(body, i, j) ==
    IF j > Len(body) \/ body[j].depth < body[i].depth THEN <<>>
    ELSE (IF body[j].depth = body[i].depth THEN <<j>> ELSE <<>>)
         \o SiblingsFrom(body, i, j + 1)

next_siblings(body, i) == SiblingsFrom(body, i, i + 1)

\* Tag.get_text(strip=True) of a heading
get_text(node) == Strip(node.text)

-----------------------------------------------------------------------------
(* Optional values: None, or a string.                                     *)

None == [some |-> FALSE, val |-> ""]
Some(s) == [some |-> TRUE, val |-> s]

-----------------------------------------------------------------------------
(* Dictionaries (insertion-ordered, keyed by "id") and lists.              *)

DictHas(d, k) == \E i \in 1..Len(d) : d[i].id = k

DictGet(d, k) == d[CHOOSE i \in 1..Len(d) : d[i].id = k]

DictPut(d, e) ==
    IF DictHas(d, e.id)
    THEN [d EXCEPT ![CHOOSE i \in 1..Len(d) : d[i].id = e.id] = e]
    ELSE Append(d, e)

\* list.insert(i, x), i counted from 0
Insert(s, i, x) ==
    LET k == IF i > Len(s) THEN Len(s) ELSE i
    IN  SubSeq(s, 1, k) \o <<x>> \o SubSeq(s, k + 1, Len(s))

Range(s) == {s[i] : i \in 1..Len(s)}

-----------------------------------------------------------------------------
(* main(): exceptions.  The body of main() runs in try ... finally, so an  *)
(* exception raised by any stage transfers control to clean_up and then    *)
(* leaves main() still propagating.                                        *)

Stages == <<"extract_epub", "find_content_opf", "parse_content_opf",
            "find_chapter_boundaries", "create_chapter_files",
            "update_content_opf", "update_nav_document",
            "update_ncx_document", "rebuild_epub">>

\* a try block without its finally clause
RaiseWithoutFinally(e) == pc' = "exit" /\ error' = e

Raise(e) == pc' = "clean_up" /\ error' = e

\* the value content_data holds before parse_content_opf has returned
NoData == [root |-> [manifest |-> <<>>, spine |-> <<>>],
           manifest |-> <<>>, spine |-> <<>>, opf_dir |-> ""]

\* argparse: a wrong command line exits before the try block is entered
ParseArgs ==
    /\ pc = "parse_args"
    /\ \/ pc' = "extract_epub" /\ error' = ""
       \/ pc' = "exit" /\ error' = "SystemExit"
    /\ UNCHANGED <<archive, tree, workdir, opf_path, content_data,
                   chapters, chapter_files, output>>

\* any stage can fail on file I/O (disk full, permissions): the exception
\* leaves the stage's effects undone and reaches the finally clause
IOFault ==
    /\ pc \in Range(Stages) \ {"extract_epub"}
    /\ Raise("OSError")
    /\ UNCHANGED <<archive, tree, workdir, opf_path, content_data,
                   chapters, chapter_files, output>>

-----------------------------------------------------------------------------
(* extract_epub                                                            *)

ExtractEpub ==
    /\ pc = "extract_epub"
    /\ \/ \* os.makedirs raises: the directory was never created
          /\ Raise("OSError")
          /\ UNCHANGED <<tree, workdir>>
       \/ \* ZipFile / extractall raises after the directory was created
          /\ Raise("BadZipFile")
          /\ workdir' = TRUE
          /\ UNCHANGED tree
       \/ /\ workdir' = TRUE
          /\ tree' = archive
          /\ pc' = "find_content_opf"
          /\ UNCHANGED error
    /\ UNCHANGED <<archive, opf_path, content_data, chapters, chapter_files,
                   output>>

-----------------------------------------------------------------------------
(* find_content_opf                                                        *)

ContainerPath == Join("META-INF", "container.xml")

\* root.find('.//rootfile[@media-type="application/oebps-package+xml"]')
FindRootfile(container) ==
    SelectSeq(container.rootfiles, LAMBDA r : r.media_type = OPFTYPE)

FindContentOpf ==
    /\ pc = "find_content_opf"
    /\ IF ContainerPath \notin DOMAIN tree
       THEN Raise("FileNotFoundError") /\ UNCHANGED opf_path
       ELSE IF FindRootfile(tree[ContainerPath]) = <<>>
       THEN Raise("ValueError") /\ UNCHANGED opf_path
       ELSE /\ opf_path' = Head(FindRootfile(tree[ContainerPath])).full_path
            /\ pc' = "parse_content_opf"
            /\ UNCHANGED error
    /\ UNCHANGED <<archive, tree, workdir, content_data, chapters,
                   chapter_files, output>>

-----------------------------------------------------------------------------
(* parse_content_opf                                                       *)

RECURSIVE ParseManifest(_, _, _)
ParseManifest(items, opf_dir, manifest) ==
    IF items = <<>> THEN manifest
    ELSE ParseManifest(Tail(items), opf_dir,
             DictPut(manifest,
                     [id |-> Head(items).id,
                      href |-> Head(items).href,
                      media_type |-> Head(items).media_type,
                      full_path |-> Join(opf_dir, Head(items).href)]))

ParseSpine(itemrefs, manifest) ==
    SelectSeq(itemrefs, LAMBDA idref : DictHas(manifest, idref))

parse_content_opf(path, opf) ==
    LET opf_dir == Dirname(path)
        manifest == ParseManifest(opf.manifest.items, opf_dir, <<>>)
    IN  [root |-> [manifest |-> opf.manifest.items, spine |-> opf.spine.itemrefs],
         manifest |-> manifest,
         spine |-> ParseSpine(opf.spine.itemrefs, manifest),
         opf_dir |-> opf_dir]

ParseContentOpf ==
    /\ pc = "parse_content_opf"
    /\ IF opf_path \notin DOMAIN tree
       THEN Raise("FileNotFoundError") /\ UNCHANGED content_data
       ELSE IF ~tree[opf_path].manifest.present \/ ~tree[opf_path].spine.present
       THEN Raise("ValueError") /\ UNCHANGED content_data
       ELSE /\ content_data' = parse_content_opf(opf_path, tree[opf_path])
            /\ pc' = "find_chapter_boundaries"
            /\ UNCHANGED error
    /\ UNCHANGED <<archive, tree, workdir, opf_path, chapters, chapter_files,
                   output>>

-----------------------------------------------------------------------------
(* find_chapter_boundaries                                                 *)

\* the spine's XHTML documents that are neither navigation nor cover pages
IsContentFile(item) ==
    /\ item.media_type = XHTML
    /\ ~\E token \in {"nav.xhtml", "cover.xhtml"} : Contains(Lower(item.href), token)

ContentFiles(cd) ==
    LET known == SelectSeq(cd.spine, LAMBDA item_id : DictHas(cd.manifest, item_id))
        items == [i \in 1..Len(known) |-> DictGet(cd.manifest, known[i])]
    IN  SelectSeq(items, IsContentFile)

\* current_title is not None
IsOpen(title) == title.some

\* "if current_title:" in place of "if current_title is not None:"
FlushIfTitled(st) ==
    IF IsOpen(st.title) /\ st.title.val # ""
    THEN Append(st.chapters,
                [title |-> st.title.val,
                 content |-> st.content,
                 id |-> "ch_" \o ToString(Len(st.chapters))])
    ELSE st.chapters

\* the chapter under construction is appended to the chapters found so far
Flush(st) ==
    IF IsOpen(st.title)
    THEN Append(st.chapters,
                [title |-> st.title.val,
                 content |-> st.content,
                 id |-> "ch_" \o ToString(Len(st.chapters))])
    ELSE st.chapters

\* the markup of the siblings that follow a heading, up to a sibling <h1>
RECURSIVE GatherSiblings(_, _, _)
GatherSiblings(path, body, sibs) ==
    IF sibs = <<>> THEN <<>>
    ELSE IF body[Head(sibs)].name = "h1" THEN <<>>
    ELSE Str(path, body, Head(sibs)) \o GatherSiblings(path, body, Tail(sibs))

\* one iteration of the loop over a file's <h1> tags
StartChapter(st, path, body, h1) ==
    [chapters |-> Flush(st),
     title |-> Some(get_text(body[h1])),
     content |-> Str(path, body, h1)
                 \o GatherSiblings(path, body, next_siblings(body, h1))]

RECURSIVE ForEachH1(_, _, _, _)
ForEachH1(st, path, body, h1_tags) ==
    IF h1_tags = <<>> THEN st
    ELSE ForEachH1(StartChapter(st, path, body, Head(h1_tags)), path, body,
                   Tail(h1_tags))

\* one iteration of the loop over the content files
ProcessFile(st, item, files) ==
    LET body == files[item.full_path].body
        h1_tags == find_all_h1(body)
    IN  IF h1_tags = <<>>
        THEN IF IsOpen(st.title)
             THEN [st EXCEPT !.content = @ \o decode_contents(item.full_path, body)]
             ELSE st
        ELSE ForEachH1(st, item.full_path, body, h1_tags)

RECURSIVE ForEachFile(_, _, _)
ForEachFile(st, content_files, files) ==
    IF content_files = <<>> THEN st
    ELSE ForEachFile(ProcessFile(st, Head(content_files), files),
                     Tail(content_files), files)

find_chapter_boundaries(cd, files) ==
    Flush(ForEachFile([chapters |-> <<>>, title |-> None, content |-> <<>>],
                      ContentFiles(cd), files))

FindChapterBoundaries ==
    /\ pc = "find_chapter_boundaries"
    /\ IF \E i \in 1..Len(ContentFiles(content_data)) :
              ContentFiles(content_data)[i].full_path \notin DOMAIN tree
       THEN Raise("FileNotFoundError") /\ UNCHANGED chapters
       ELSE /\ chapters' = find_chapter_boundaries(content_data, tree)
            /\ pc' = "create_chapter_files"
            /\ UNCHANGED error
    /\ UNCHANGED <<archive, tree, workdir, opf_path, content_data,
                   chapter_files, output>>

-----------------------------------------------------------------------------
(* create_chapter_files                                                    *)

\* the test of the removal loop: an old content file, not cover or nav
IsOldContentFile(item) ==
    /\ item.media_type = XHTML
    /\ item.href # "cover.xhtml"
    /\ item.id \notin {"nav", "cover"}
    /\ ~StartsWith(item.id, "ch_")

RemovedFiles(cd) ==
    {DictGet(cd.manifest, item_id).full_path :
        item_id \in {r \in Range(cd.spine) :
                        /\ DictHas(cd.manifest, r)
                        /\ IsOldContentFile(DictGet(cd.manifest, r))}}

RemoveOldFiles(cd, files) ==
    [path \in DOMAIN files \ RemovedFiles(cd) |-> files[path]]

\* the document written for one chapter: the chapter's markup in a section
ChapterDocument(chapter) ==
    [type |-> "chapter", title |-> chapter.title, content |-> chapter.content]

ChapterFile(cd, chapter) ==
    [id |-> chapter.id,
     href |-> chapter.id \o ".xhtml",
     title |-> chapter.title,
     path |-> Join(cd.opf_dir, chapter.id \o ".xhtml")]

RECURSIVE WriteChapters(_, _, _)
WriteChapters(cd, chs, files) ==
    IF chs = <<>> THEN files
    ELSE WriteChapters(cd, Tail(chs),
             (ChapterFile(cd, Head(chs)).path :> ChapterDocument(Head(chs))) @@ files)

CreateChapterFiles ==
    /\ pc = "create_chapter_files"
    /\ IF content_data.spine = <<>>
       THEN \* content_data['spine'][0]
            Raise("IndexError") /\ UNCHANGED <<tree, chapter_files>>
       ELSE IF DictGet(content_data.manifest, content_data.spine[1]).full_path
                   \notin DOMAIN tree
       THEN Raise("FileNotFoundError") /\ UNCHANGED <<tree, chapter_files>>
       ELSE /\ tree' = WriteChapters(content_data, chapters,
                                     RemoveOldFiles(content_data, tree))
            /\ chapter_files' =
                   [i \in 1..Len(chapters) |-> ChapterFile(content_data, chapters[i])]
            /\ pc' = "update_content_opf"
            /\ UNCHANGED error
    /\ UNCHANGED <<archive, workdir, opf_path, content_data, chapters, output>>

-----------------------------------------------------------------------------
(* update_content_opf                                                      *)

\* the test that collects content_items_to_remove
IsOldManifestItem(item) ==
    /\ item.id \notin {"nav", "ncx"}
    /\ item.href # "cover.xhtml"
    /\ item.media_type = XHTML
    /\ ~StartsWith(item.id, "ch_")

\* one iteration of "Add new chapter items": update the item, or add it
AddManifestItem(items, chapter) ==
    LET new == [id |-> chapter.id, href |-> chapter.href, media_type |-> XHTML]
    IN  IF \E i \in 1..Len(items) : items[i].id = chapter.id
        THEN LET first == CHOOSE i \in 1..Len(items) :
                             /\ items[i].id = chapter.id
                             /\ \A j \in 1..(i - 1) : items[j].id # chapter.id
             IN  [items EXCEPT ![first] = new]
        ELSE Append(items, new)

RECURSIVE AddManifestItems(_, _)
AddManifestItems(items, chs) ==
    IF chs = <<>> THEN items
    ELSE AddManifestItems(AddManifestItem(items, Head(chs)), Tail(chs))

UpdateManifest(items, chs) ==
    AddManifestItems(SelectSeq(items, LAMBDA item : ~IsOldManifestItem(item)), chs)

\* is_cover: the itemref points to cover.xhtml
IsCoverRef(cd, idref) ==
    DictHas(cd.manifest, idref) /\ DictGet(cd.manifest, idref).href = "cover.xhtml"

\* the test that collects spine_items_to_remove
IsOldSpineItem(cd, idref) ==
    /\ idref \notin {"nav", "ncx"}
    /\ ~IsCoverRef(cd, idref)
    /\ ~StartsWith(idref, "ch_")

\* the itemrefs of old chapters are left in the spine
KeepChapterRefs(itemrefs) == itemrefs

\* "Remove any existing chapter items to avoid duplicates"
RemoveChapterRefs(itemrefs) ==
    SelectSeq(itemrefs, LAMBDA idref : ~(idref # "" /\ StartsWith(idref, "ch_")))

\* "Find the position to insert after cover and nav"
InsertPosition(cd, itemrefs) ==
    LET hits == {i \in 1..Len(itemrefs) :
                    itemrefs[i] = "nav" \/ IsCoverRef(cd, itemrefs[i])}
    IN  IF hits = {} THEN 0 ELSE CHOOSE i \in hits : \A j \in hits : j <= i

RECURSIVE InsertItemrefs(_, _, _, _)
InsertItemrefs(itemrefs, insert_position, chs, i) ==
    IF i > Len(chs) THEN itemrefs
    ELSE InsertItemrefs(Insert(itemrefs, insert_position + (i - 1), chs[i].id),
                        insert_position, chs, i + 1)

UpdateSpine(cd, itemrefs, chs) ==
    LET kept == RemoveChapterRefs(
                    SelectSeq(itemrefs, LAMBDA idref : ~IsOldSpineItem(cd, idref)))
    IN  InsertItemrefs(kept, InsertPosition(cd, kept), chs, 1)

\* the name under which the updated package document is written
WrittenOpfPath(cd) == Join(cd.opf_dir, "content.opf")

UpdateContentOpf ==
    /\ pc = "update_content_opf"
    /\ LET root == [manifest |-> UpdateManifest(content_data.root.manifest, chapter_files),
                    spine |-> UpdateSpine(content_data, content_data.root.spine,
                                          chapter_files)]
       IN  /\ content_data' = [content_data EXCEPT !.root = root]
           /\ tree' = (WrittenOpfPath(content_data) :>
                          [type |-> "opf",
                           manifest |-> [present |-> TRUE, items |-> root.manifest],
                           spine |-> [present |-> TRUE, itemrefs |-> root.spine]])
                      @@ tree
    /\ pc' = "update_nav_document"
    /\ UNCHANGED <<error, archive, workdir, opf_path, chapters, chapter_files,
                   output>>

-----------------------------------------------------------------------------
(* update_nav_document and update_ncx_document                             *)

\* next(item for item in manifest.values() if item['href'] == 'cover.xhtml')
CoverItems(cd) == SelectSeq(cd.manifest, LAMBDA item : item.href = "cover.xhtml")

\* the <li><a href=...> entries written into the table of contents
NavEntries(cd, chs) ==
    (IF CoverItems(cd) # <<>>
     THEN <<[href |-> Head(CoverItems(cd)).href, text |-> "Cover"]>>
     ELSE <<>>)
    \o [i \in 1..Len(chs) |-> [href |-> chs[i].href, text |-> chs[i].title]]

\* the update also returns early when nav_elem.find('ol') is None
SkipsWithoutList(nav) == ~nav.toc \/ ~nav.ol

\* the update returns early when soup.find('nav', epub:type='toc') is None;
\* a missing <ol> is created (soup.new_tag('ol')) and the update goes on
SkipsNavUpdate(nav) == ~nav.toc

UpdateNavDocument ==
    /\ pc = "update_nav_document"
    /\ IF "nav" \notin Range(content_data.spine)
       THEN \* "Navigation document not found. Skipping nav update."
            pc' = "update_ncx_document" /\ UNCHANGED <<error, tree>>
       ELSE LET nav_path == DictGet(content_data.manifest, "nav").full_path
            IN  IF nav_path \notin DOMAIN tree
                THEN Raise("FileNotFoundError") /\ UNCHANGED tree
                ELSE IF SkipsNavUpdate(tree[nav_path].nav)
                THEN \* "TOC nav element not found. Skipping nav update."
                     pc' = "update_ncx_document" /\ UNCHANGED <<error, tree>>
                ELSE /\ tree' = [tree EXCEPT ![nav_path].nav =
                                    [toc |-> TRUE, ol |-> TRUE,
                                     entries |-> NavEntries(content_data, chapter_files)]]
                     /\ pc' = "update_ncx_document"
                     /\ UNCHANGED error
    /\ UNCHANGED <<archive, workdir, opf_path, content_data, chapters,
                   chapter_files, output>>

\* next(id for id, item in manifest.items() if media-type is NCX)
NcxItems(cd) == SelectSeq(cd.manifest, LAMBDA item : item.media_type = NCXTYPE)

\* the navPoints written into the navMap, playOrder counted from 1
NavPoints(cd, chs) ==
    LET entries == NavEntries(cd, chs)
    IN  [i \in 1..Len(entries) |->
            [id |-> "navPoint-" \o ToString(i),
             playOrder |-> ToString(i),
             text |-> entries[i].text,
             src |-> entries[i].href]]

UpdateNcxDocument ==
    /\ pc = "update_ncx_document"
    /\ IF NcxItems(content_data) = <<>>
       THEN \* "NCX document not found. Skipping NCX update."
            pc' = "rebuild_epub" /\ UNCHANGED <<error, tree>>
       ELSE LET ncx_path == Head(NcxItems(content_data)).full_path
            IN  IF ncx_path \notin DOMAIN tree
                THEN Raise("FileNotFoundError") /\ UNCHANGED tree
                ELSE IF ~tree[ncx_path].navMap.present
                THEN \* "navMap element not found. Skipping NCX update."
                     pc' = "rebuild_epub" /\ UNCHANGED <<error, tree>>
                ELSE /\ tree' = [tree EXCEPT ![ncx_path].navMap.points =
                                    NavPoints(content_data, chapter_files)]
                     /\ pc' = "rebuild_epub"
                     /\ UNCHANGED error
    /\ UNCHANGED <<archive, workdir, opf_path, content_data, chapters,
                   chapter_files, output>>

-----------------------------------------------------------------------------
(* rebuild_epub and clean_up                                               *)

NoOutput == [written |-> FALSE, first |-> "", names |-> {}]

RebuildEpub ==
    /\ pc = "rebuild_epub"
    /\ output' = [written |-> TRUE,
                  first |-> IF "mimetype" \in DOMAIN tree THEN "mimetype" ELSE "",
                  names |-> DOMAIN tree]
    /\ pc' = "clean_up"
    /\ UNCHANGED <<error, archive, tree, workdir, opf_path, content_data,
                   chapters, chapter_files>>

\* the finally clause: shutil.rmtree(extract_dir)
CleanUp ==
    /\ pc = "clean_up"
    /\ IF workdir
       THEN workdir' = FALSE /\ tree' = <<>> /\ UNCHANGED error
       ELSE error' = "FileNotFoundError" /\ UNCHANGED <<workdir, tree>>
    /\ pc' = "exit"
    /\ UNCHANGED <<archive, opf_path, content_data, chapters, chapter_files,
                   output>>

-----------------------------------------------------------------------------
(* Input packages.                                                         *)

OpfDir == "OEBPS"

Node(name, depth, text) == [name |-> name, depth |-> depth, text |-> text]

\* raw heading texts: get_text(strip=True) turns " " into ""
HeadingTexts == {" ", "A"}

\* the nodes that can follow the preorder sequence d in a document
NextNodes(d) ==
    LET deepest == IF d = <<>> THEN 1
                   ELSE d[Len(d)].depth + (IF d[Len(d)].name = "div" THEN 1 ELSE 0)
    IN  {Node("h1", dp, t) : dp \in 1..deepest, t \in HeadingTexts}
        \cup {Node(k, dp, "") : k \in {"div", "p"}, dp \in 1..deepest}

\* the document bodies of exactly n nodes
RECURSIVE BodiesOfLen(_)
BodiesOfLen(n) ==
    IF n = 0 THEN {<<>>}
    ELSE UNION {{Append(d, nd) : nd \in NextNodes(d)} : d \in BodiesOfLen(n - 1)}

\* the lists of k document bodies that hold at most budget nodes in all
RECURSIVE BodyLists(_, _)
BodyLists(k, budget) ==
    IF k = 0 THEN {<<>>}
    ELSE UNION {LET first == BodiesOfLen(n)
                    others == BodyLists(k - 1, budget - n)
                IN  {<<d>> \o rest : d \in first, rest \in others} :
                   n \in 0..budget}

NoNav == [toc |-> FALSE, ol |-> FALSE, entries |-> <<>>]

XhtmlDoc(body, nav) == [type |-> "xhtml", body |-> body, nav |-> nav]

Container(rootfiles) == [type |-> "container", rootfiles |-> rootfiles]

PackageDoc(manifest_present, items, spine_present, itemrefs) ==
    [type |-> "opf",
     manifest |-> [present |-> manifest_present, items |-> items],
     spine |-> [present |-> spine_present, itemrefs |-> itemrefs]]

Item(id, href, media_type) == [id |-> id, href |-> href, media_type |-> media_type]

\* the entries every package holds besides its package document
BaseEntries(opf_name) ==
    ("mimetype" :> [type |-> "other"])
    @@ (ContainerPath :>
           Container(<<[media_type |-> OPFTYPE, full_path |-> Join(OpfDir, opf_name)]>>))

-----------------------------------------------------------------------------
(* Segmenter inputs: packages of 1..MaxDocs content documents c1, c2, ...  *)
(* listed in the spine in that order, holding at most MaxNodes body nodes. *)

SegItem(i) == Item("c" \o ToString(i), "c" \o ToString(i) \o ".xhtml", XHTML)

SegArchive(bodies) ==
    LET items == [i \in 1..Len(bodies) |-> SegItem(i)]
        files == [path \in {Join(OpfDir, items[i].href) : i \in 1..Len(bodies)} |->
                     XhtmlDoc(bodies[CHOOSE i \in 1..Len(bodies) :
                                        Join(OpfDir, items[i].href) = path],
                              NoNav)]
    IN  files
        @@ (Join(OpfDir, "content.opf") :>
               PackageDoc(TRUE, items, TRUE, [i \in 1..Len(bodies) |-> items[i].id]))
        @@ BaseEntries("content.opf")

SegBodyLists == UNION {BodyLists(k, MaxNodes) : k \in 1..MaxDocs}

\* the state in which find_chapter_boundaries is called on a segmenter input
InitSeg ==
    /\ \E bodies \in SegBodyLists : archive = SegArchive(bodies)
    /\ pc = "find_chapter_boundaries"
    /\ error = ""
    /\ tree = archive
    /\ workdir = TRUE
    /\ opf_path = Join(OpfDir, "content.opf")
    /\ content_data = parse_content_opf(opf_path, archive[opf_path])
    /\ chapters = <<>>
    /\ chapter_files = <<>>
    /\ output = NoOutput

NextSeg == FindChapterBoundaries

SpecSeg == InitSeg /\ [][NextSeg]_vars

-----------------------------------------------------------------------------
(* Pipeline inputs: packages whose manifest holds any of the catalog's     *)
(* items and whose spine lists at most MaxSpine distinct idrefs, some of   *)
(* which the manifest may lack.                                            *)

Catalog ==
    <<Item("cover", "cover.xhtml", XHTML),
      Item("nav", "nav.xhtml", XHTML),
      Item("ncx", "toc.ncx", NCXTYPE),
      Item("c1", "c1.xhtml", XHTML),
      Item("ch_0", "ch_0.xhtml", XHTML)>>

CatalogIds == {Catalog[i].id : i \in 1..Len(Catalog)}

\* the bodies of the content document c1
PipelineBodies ==
    {<<Node("p", 1, "")>>,
     <<Node("h1", 1, "A"), Node("p", 1, "")>>,
     <<Node("h1", 1, "A"), Node("p", 1, ""), Node("h1", 1, " B ")>>}

\* what the table of contents and the navMap list before the run
OldEntry == [href |-> "c1.xhtml", text |-> "One"]

OldNavPoint ==
    [id |-> "navPoint-1", playOrder |-> "1", text |-> "One", src |-> "c1.xhtml"]

NavStates ==
    {NoNav,
     [toc |-> TRUE, ol |-> FALSE, entries |-> <<>>],
     [toc |-> TRUE, ol |-> TRUE, entries |-> <<OldEntry>>]}

NcxDoc(present) ==
    [type |-> "ncx",
     navMap |-> [present |-> present,
                 points |-> IF present THEN <<OldNavPoint>> ELSE <<>>]]

\* the lists of at most n distinct idrefs
RECURSIVE IdrefLists(_)
IdrefLists(n) ==
    IF n = 0 THEN {<<>>}
    ELSE LET shorter == IdrefLists(n - 1)
         IN  shorter \cup {Append(l, id) : l \in shorter, id \in CatalogIds}

SpineLists == {l \in IdrefLists(MaxSpine) : Cardinality(Range(l)) = Len(l)}

\* the file of a catalog item
CatalogFile(item, body1, nav, navMap) ==
    CASE item.id = "cover" -> XhtmlDoc(<<Node("p", 1, "")>>, NoNav)
      [] item.id = "nav" -> XhtmlDoc(<<Node("h1", 1, "Contents")>>, nav)
      [] item.id = "ncx" -> NcxDoc(navMap)
      [] item.id = "c1" -> XhtmlDoc(body1, NoNav)
      [] OTHER -> XhtmlDoc(<<Node("p", 1, "")>>, NoNav)

PipelineArchive(present, itemrefs, body1, nav, navMap, opf_name) ==
    LET items == SelectSeq(Catalog, LAMBDA item : item.id \in present)
        files == [path \in {Join(OpfDir, items[i].href) : i \in 1..Len(items)} |->
                     CatalogFile(items[CHOOSE i \in 1..Len(items) :
                                          Join(OpfDir, items[i].href) = path],
                                 body1, nav, navMap)]
    IN  files
        @@ (Join(OpfDir, opf_name) :> PackageDoc(TRUE, items, TRUE, itemrefs))
        @@ BaseEntries(opf_name)

\* a complete package for every spine, for the package document's other name
WholeArchive(itemrefs, opf_name) ==
    PipelineArchive(CatalogIds, itemrefs, <<Node("h1", 1, "A"), Node("p", 1, "")>>,
                    [toc |-> TRUE, ol |-> TRUE, entries |-> <<OldEntry>>], TRUE,
                    opf_name)

\* a complete package with one structural defect
Defects == {"no_container", "no_rootfile", "no_package_document", "no_manifest",
            "no_spine"}

DefectArchive(defect) ==
    LET whole == WholeArchive(<<"cover", "nav", "c1">>, "content.opf")
        opf == Join(OpfDir, "content.opf")
    IN  CASE defect = "no_container" ->
                 [path \in DOMAIN whole \ {ContainerPath} |-> whole[path]]
          [] defect = "no_rootfile" ->
                 [whole EXCEPT ![ContainerPath] = Container(<<>>)]
          [] defect = "no_package_document" ->
                 [path \in DOMAIN whole \ {opf} |-> whole[path]]
          [] defect = "no_manifest" ->
                 [whole EXCEPT ![opf].manifest = [present |-> FALSE, items |-> <<>>]]
          [] defect = "no_spine" ->
                 [whole EXCEPT ![opf].spine = [present |-> FALSE, itemrefs |-> <<>>]]

InitArchive ==
    \/ \E present \in SUBSET CatalogIds, itemrefs \in SpineLists :
          \E body1 \in (IF "c1" \in present THEN PipelineBodies ELSE {<<>>}),
             nav \in (IF "nav" \in present THEN NavStates ELSE {NoNav}),
             navMap \in (IF "ncx" \in present THEN BOOLEAN ELSE {FALSE}) :
              archive = PipelineArchive(present, itemrefs, body1, nav, navMap,
                                        "content.opf")
    \/ \E itemrefs \in SpineLists : archive = WholeArchive(itemrefs, "package.opf")
    \/ \E defect \in Defects : archive = DefectArchive(defect)

Init ==
    /\ InitArchive
    /\ pc = "parse_args"
    /\ error = ""
    /\ tree = <<>>
    /\ workdir = FALSE
    /\ opf_path = ""
    /\ content_data = NoData
    /\ chapters = <<>>
    /\ chapter_files = <<>>
    /\ output = NoOutput

Next ==
    \/ ParseArgs
    \/ ExtractEpub
    \/ FindContentOpf
    \/ ParseContentOpf
    \/ FindChapterBoundaries
    \/ CreateChapterFiles
    \/ UpdateContentOpf
    \/ UpdateNavDocument
    \/ UpdateNcxDocument
    \/ RebuildEpub
    \/ CleanUp
    \/ IOFault

Spec == Init /\ [][Next]_vars

-----------------------------------------------------------------------------
(* Vocabulary of the claims about the segmenter.                           *)

\* find_chapter_boundaries has returned
Segmented == pc = "create_chapter_files"

\* the files the segmenter reads, in spine order
SegPaths == [i \in 1..Len(ContentFiles(content_data)) |->
                ContentFiles(content_data)[i].full_path]

BodyOf(path) == archive[path].body

Ref(path, node) == [path |-> path, node |-> node]

\* the references to the <h1> nodes of the files the segmenter reads
HeadingRefs ==
    {r \in UNION {{Ref(SegPaths[i], n) : n \in 1..Len(BodyOf(SegPaths[i]))} :
                     i \in 1..Len(SegPaths)} : BodyOf(r.path)[r.node].name = "h1"}

\* the position of a read file in the reading order
FilePos(path) == CHOOSE i \in 1..Len(SegPaths) : SegPaths[i] = path

\* r comes before q in spine-then-document order
Before(r, q) ==
    \/ FilePos(r.path) < FilePos(q.path)
    \/ r.path = q.path /\ r.node < q.node

\* the nodes that the content of chapter k holds
ContentOf(k) == Range(chapters[k].content)

\* chapter k was opened by heading h
OpenedBy(k, h) == chapters[k].content # <<>> /\ chapters[k].content[1] = h

-----------------------------------------------------------------------------
(* C1: in a document with two headings H1 and H2 (H2 after H1, at any      *)
(* nesting depth) the chapter opened by H1 holds neither H2 nor any node   *)
(* of the document that follows H2.                                        *)
C1_NoInheritedMarkup ==
    Segmented =>
        \A h1 \in HeadingRefs, h2 \in HeadingRefs :
            (h1.path = h2.path /\ h1.node < h2.node) =>
                \A k \in 1..Len(chapters) :
                    OpenedBy(k, h1) =>
                        \A r \in ContentOf(k) :
                            ~(r.path = h2.path /\ r.node >= h2.node)

(* C2: the segmenter returns exactly one chapter per heading of the files  *)
(* it reads, in spine-then-document order of the headings, titled by the   *)
(* heading's stripped text and numbered ch_0, ch_1, ...                    *)
C2_OneChapterPerHeading ==
    Segmented =>
        /\ Len(chapters) = Cardinality(HeadingRefs)
        /\ \A k \in 1..Len(chapters) :
              /\ chapters[k].content # <<>>
              /\ chapters[k].content[1] \in HeadingRefs
              /\ chapters[k].title =
                     Strip(BodyOf(chapters[k].content[1].path)
                               [chapters[k].content[1].node].text)
              /\ chapters[k].id = "ch_" \o ToString(k - 1)
        /\ \A j \in 1..Len(chapters), k \in 1..Len(chapters) :
              j < k => Before(chapters[j].content[1], chapters[k].content[1])

\* three headings in two documents, one of them with an empty title
C2_Witness ==
    /\ Segmented
    /\ Len(chapters) = 3
    /\ chapters[1].content[1].path # chapters[3].content[1].path
    /\ chapters[2].title = ""

(* C3: every body node that comes after heading H_k and before the next    *)
(* heading in spine-then-document order is part of chapter k; the nodes    *)
(* after the last heading are part of the last chapter.                    *)
C3_NoContentLost ==
    Segmented =>
        \A h \in HeadingRefs, k \in 1..Len(chapters) :
            OpenedBy(k, h) =>
                \A i \in 1..Len(SegPaths) :
                    \A n \in 1..Len(BodyOf(SegPaths[i])) :
                        LET r == Ref(SegPaths[i], n)
                        IN  (/\ Before(h, r)
                             /\ ~\E g \in HeadingRefs :
                                    Before(h, g) /\ (g = r \/ Before(g, r)))
                            => r \in ContentOf(k)

-----------------------------------------------------------------------------
(* Vocabulary of the claims about the synchronizer and the run.            *)

\* update_content_opf has just returned
OpfUpdated == pc = "update_nav_document"

\* the spine and the manifest of the package document as loaded
OriginalSpine == archive[opf_path].spine.itemrefs

\* the spine and the manifest of the package document as written
WrittenSpine == tree[WrittenOpfPath(content_data)].spine.itemrefs

WrittenManifest == tree[WrittenOpfPath(content_data)].manifest.items

ChapterIds == [i \in 1..Len(chapter_files) |-> chapter_files[i].id]

IsChapterRef(idref) == StartsWith(idref, "ch_")

\* the idref resolves to the cover page in the loaded manifest
IsCover(idref) ==
    \E i \in 1..Len(content_data.manifest) :
        /\ content_data.manifest[i].id = idref
        /\ content_data.manifest[i].href = "cover.xhtml"

\* the index of the last itemref of l that satisfies Test, 0 when there is none
LastIndex(l, Test(_)) ==
    IF \E i \in 1..Len(l) : Test(l[i])
    THEN CHOOSE i \in 1..Len(l) : Test(l[i]) /\ \A j \in (i + 1)..Len(l) : ~Test(l[j])
    ELSE 0

\* every itemref of the original spine resolves in the manifest
SpineResolved ==
    \A i \in 1..Len(OriginalSpine) :
        \E j \in 1..Len(content_data.manifest) :
            content_data.manifest[j].id = OriginalSpine[i]

(* C4 as claimed: whatever the original order of a spine whose itemrefs    *)
(* all resolve, the synchronized spine is the cover itemref, then the      *)
(* navigation itemref, then one itemref per chapter in emission order, and *)
(* nothing else (an ncx itemref aside).                                    *)
C4_CoverNavChapters ==
    (OpfUpdated /\ SpineResolved) =>
        SelectSeq(WrittenSpine, LAMBDA r : r # "ncx")
            = SelectSeq(OriginalSpine, IsCover)
              \o SelectSeq(OriginalSpine, LAMBDA r : r = "nav")
              \o ChapterIds

(* C4 as amended: the synchronized spine keeps, in their original relative *)
(* order, exactly the original itemrefs that are nav, ncx or the cover     *)
(* (and do not start with ch_); it holds one itemref per chapter, in       *)
(* emission order and each once, as one run that starts right after the    *)
(* last kept nav or cover itemref (at the front when there is none).       *)
C4_SpineAfterSync ==
    OpfUpdated =>
        LET kept == SelectSeq(OriginalSpine,
                        LAMBDA r : (r \in {"nav", "ncx"} \/ IsCover(r))
                                   /\ ~IsChapterRef(r))
            anchor == LastIndex(WrittenSpine, LAMBDA r : r = "nav" \/ IsCover(r))
        IN  /\ SelectSeq(WrittenSpine, LAMBDA r : ~IsChapterRef(r)) = kept
            /\ SelectSeq(WrittenSpine, IsChapterRef) = ChapterIds
            /\ \A i \in 1..Len(ChapterIds) : WrittenSpine[anchor + i] = ChapterIds[i]
            /\ \A i \in 1..Len(ChapterIds), j \in 1..Len(ChapterIds) :
                  ChapterIds[i] = ChapterIds[j] => i = j

\* cover and nav listed in that order, and a document of two chapters
C4_Witness ==
    /\ OpfUpdated
    /\ Len(chapter_files) = 2
    /\ OriginalSpine = <<"cover", "nav", "c1">>
    /\ WrittenSpine = <<"cover", "nav", "ch_0", "ch_1">>

NavPath == Join(OpfDir, "nav.xhtml")

NcxPath == Join(OpfDir, "toc.ncx")

(* C5: after update_nav_document and update_ncx_document have run on a     *)
(* package that holds a navigation document with a table of contents and   *)
(* an NCX with a navMap, the two list the same hrefs in the same order,    *)
(* whether or not the spine lists the navigation document.                 *)
C5_SameTargets ==
    (/\ pc = "rebuild_epub"
     /\ NavPath \in DOMAIN tree /\ tree[NavPath].nav.toc /\ tree[NavPath].nav.ol
     /\ NcxPath \in DOMAIN tree /\ tree[NcxPath].navMap.present) =>
        [i \in 1..Len(tree[NavPath].nav.entries) |-> tree[NavPath].nav.entries[i].href]
            = [i \in 1..Len(tree[NcxPath].navMap.points) |->
                  tree[NcxPath].navMap.points[i].src]

(* C6: every itemref of the spine written by update_content_opf has an     *)
(* idref that is the id of an item of the manifest written with it.        *)
C6_SpineResolves ==
    OpfUpdated =>
        \A i \in 1..Len(WrittenSpine) :
            \E j \in 1..Len(WrittenManifest) : WrittenManifest[j].id = WrittenSpine[i]

(* C7: when main() is left, on whatever path, the extraction directory     *)
(* does not exist.                                                         *)
C7_WorkdirReclaimed == pc = "exit" => ~workdir

\* a run that failed after the chapter files had been written
C7_Witness ==
    /\ pc = "exit"
    /\ error = "OSError"
    /\ chapter_files # <<>>
    /\ ~output.written
    /\ ~workdir

\* no document that the segmenter reads holds an <h1>
ZeroHeadings ==
    \A i \in 1..Len(SegPaths) :
        \A n \in 1..Len(BodyOf(SegPaths[i])) : BodyOf(SegPaths[i])[n].name # "h1"

(* C8: a run on a loaded package without headings, its spine empty or not, *)
(* ends without an exception of the program's own, with no chapter, no new *)
(* file beside the package document, and a spine of nav, ncx and cover     *)
(* itemrefs only.                                                          *)
C8_ZeroHeadingRun ==
    (pc = "exit" /\ content_data # NoData /\ ZeroHeadings /\ error # "OSError") =>
        /\ error = ""
        /\ chapters = <<>>
        /\ output.written
        /\ output.names \ {WrittenOpfPath(content_data)} \subseteq DOMAIN archive
        /\ \A i \in 1..Len(content_data.root.spine) :
              content_data.root.spine[i] \in {"nav", "ncx"}
              \/ IsCover(content_data.root.spine[i])

\* the content documents of the input package
ContentDocuments == {path \in DOMAIN archive : archive[path].type = "xhtml"}

(* C9: when the segmenter returns no chapter, every content document of    *)
(* the package is still in the working tree after the materializer and the *)
(* synchronizer, and in the packed result.                                 *)
C9_BodyUnchanged ==
    /\ (chapters = <<>> /\ pc \in {"update_content_opf", "update_nav_document",
                                   "update_ncx_document", "rebuild_epub"})
           => ContentDocuments \subseteq DOMAIN tree
    /\ (chapters = <<>> /\ output.written) => ContentDocuments \subseteq output.names

\* the navigation document is looked up and its table of contents is
\* missing, or has no ordered list
NavDegraded ==
    /\ "nav" \in Range(content_data.spine)
    /\ NavPath \in DOMAIN tree
    /\ ~tree[NavPath].nav.toc \/ ~tree[NavPath].nav.ol

(* C10 as claimed: when the table of contents is missing or has no ordered *)
(* list, update_nav_document leaves the navigation document as it is, does *)
(* not raise, and the NCX update runs next.                                *)
C10_DegradedUpdateSkipped ==
    [][(pc = "update_nav_document" /\ NavDegraded /\ error' # "OSError") =>
          (pc' = "update_ncx_document" /\ error' = "" /\ tree' = tree)]_vars

(* C10 as amended: when the table of contents is missing the navigation    *)
(* document is left as it is; when it is present without an ordered list,  *)
(* a list is created in it and filled with the cover link and one link per *)
(* chapter, and the document is written; in both cases nothing is raised   *)
(* and the NCX update runs next.                                           *)
C10_DegradedUpdate ==
    [][(pc = "update_nav_document" /\ NavDegraded /\ error' # "OSError") =>
          /\ pc' = "update_ncx_document"
          /\ error' = ""
          /\ \A path \in DOMAIN tree \ {NavPath} :
                path \in DOMAIN tree' /\ tree'[path] = tree[path]
          /\ IF ~tree[NavPath].nav.toc
             THEN tree' = tree
             ELSE /\ tree'[NavPath].nav.toc /\ tree'[NavPath].nav.ol
                  /\ [i \in 1..Len(tree'[NavPath].nav.entries) |->
                         tree'[NavPath].nav.entries[i].href]
                       = (IF \E i \in 1..Len(content_data.manifest) :
                                content_data.manifest[i].href = "cover.xhtml"
                          THEN <<"cover.xhtml">> ELSE <<>>)
                         \o [i \in 1..Len(chapter_files) |-> chapter_files[i].href]]_vars

\* a table of contents without a list was given one, with cover and chapter
C10_Witness ==
    /\ pc = "update_ncx_document"
    /\ "nav" \in Range(content_data.spine)
    /\ archive[NavPath].nav.toc /\ ~archive[NavPath].nav.ol
    /\ tree[NavPath].nav.ol
    /\ Len(tree[NavPath].nav.entries) = 2
    /\ Len(chapter_files) = 1

-----------------------------------------------------------------------------
(* Vocabulary of the claims about the package document.                    *)

\* the manifest of the package document as loaded
OriginalManifest == archive[opf_path].manifest.items

\* the written manifest holds no entry with the item's id
EntryRemoved(item) ==
    ~\E j \in 1..Len(WrittenManifest) : WrittenManifest[j].id = item.id

\* the item's file was unpacked and is gone from the working tree
FileRemoved(item) ==
    /\ Join(content_data.opf_dir, item.href) \in DOMAIN archive
    /\ Join(content_data.opf_dir, item.href) \notin DOMAIN tree

(* C11: once create_chapter_files and update_content_opf have run, every   *)
(* manifest entry of the input package is gone from the written manifest   *)
(* if and only if its file is gone from the working tree: no kept file     *)
(* loses its manifest entry and no removed file keeps one.                 *)
C11_SameExclusionFilter ==
    OpfUpdated =>
        \A i \in 1..Len(OriginalManifest) :
            EntryRemoved(OriginalManifest[i]) <=> FileRemoved(OriginalManifest[i])

\* the package documents of a tree
PackageDocuments(files) == {path \in DOMAIN files : files[path].type = "opf"}

(* C12: after update_content_opf, the file at the path that                *)
(* find_content_opf returned, whatever its name, holds the new manifest    *)
(* and the new spine, and the working tree holds no package document that  *)
(* the input package did not hold.                                         *)
C12_PersistedWhereLocated ==
    OpfUpdated =>
        /\ opf_path \in DOMAIN tree
        /\ tree[opf_path].manifest.items = content_data.root.manifest
        /\ tree[opf_path].spine.itemrefs = content_data.root.spine
        /\ PackageDocuments(tree) \subseteq PackageDocuments(archive)

====
